---- MODULE Spec2Model ----
(***************************************************************************)
(* Model of runs_summary_plotter.py: the linear pipeline of main().        *)
(*                                                                         *)
(* Timestamps are whole hours since a midnight (hour 0 is 00:00 of day 0), *)
(* so floor('D') of t is (t \div 24) * 24.  A missing value (NaN / NaT /   *)
(* SQL NULL) is the empty sequence <<>> and a present value v is <<v>>.    *)
(* Event counts are plain event numbers; printed figures are kept as the   *)
(* integer number of hundredths of a billion that "%.2f" shows.            *)
(* beam_current is fetched but never read by main() and is left out.       *)
(***************************************************************************)
EXTENDS Integers, Sequences, FiniteSets, TLC

VARIABLES
    db,          \* the database: run number -> [run row, condition row]
    pc,          \* position of main()
    table,       \* rows returned by db.select_values (line 47)
    df,          \* run rows after read_sql and dropna (lines 58-63)
    df_merged,   \* merged, sorted rows with cum_events and bottom (lines 66-70)
    summary,     \* per-angle groups in ascending angle order (lines 72-77)
    stdout,      \* <<>> or <<the text report>> (lines 82-93)
    fig1,        \* <<>> or <<the hlines of the timeline chart>> (lines 96-103)
    fig2,        \* <<>> or <<the content of the accumulation chart>> (lines 113-166)
    effects      \* the externally visible effects, in the order they happened

vars == <<db, pc, table, df, df_merged, summary, stdout, fig1, fig2, effects>>

----------------------------------------------------------------------------
(* Bounds and input sets *)

\* number of run numbers in the queried range [begin, end]
MaxRuns == 2

\* args.begin
BeginRun == 100

RunNumbers == BeginRun .. (BeginRun + MaxRuns - 1)

NaN == <<>>
NaT == <<>>

IsNa(x) == x = <<>>
Val(x) == x[1]

\* (started, finished) of a run row: a null start, a null finish, a run that
\* starts on day 0 and runs into day 1, and a run on day 3 (days 1 and 2 have
\* no start, day 2 has no run at all).  Two runs may share a start time.
TimeOptions ==
    { <<NaT, <<20>>>>, <<<<5>>, NaT>>, <<<<5>>, <<30>>>>, <<<<80>>, <<90>>>> }

\* more start and finish times, for the charts: two runs within day 0, a run
\* within day 1, a run from day 1 into day 2
ChartTimeOptions ==
    TimeOptions \cup { <<<<10>>, <<12>>>>, <<<<30>>, <<40>>>>, <<<<46>>, <<50>>>> }

EventCounts == {4000000, 6000000}
Angles == {0, 45}

\* the values select_values returns for one run: event count and angle may be
\* missing (None, which the numeric columns of df_cond hold as NaN); the
\* validity flag is set here and varied in ChartCondValues
CondValues ==
    { [event_count |-> e, polarization_angle |-> a, is_valid_run_end |-> v] :
        e \in {NaN} \cup {<<x>> : x \in EventCounts},
        a \in {NaN} \cup {<<x>> : x \in Angles},
        v \in {<<TRUE>>} }

\* conditions that differ in the validity flag only
ChartCondValues ==
    { [event_count |-> <<4000000>>, polarization_angle |-> <<0>>, is_valid_run_end |-> <<v>>] :
        v \in BOOLEAN }

\* one run of the database: its row of the runs table (started, finished)
\* and, when the run has conditions, its condition values (a condition
\* references its run by number)
DbEntries(times, conds) ==
    { [run |-> [started |-> t[1], finished |-> t[2]], cond |-> c] :
        t \in times, c \in {<<>>} \cup {<<x>> : x \in conds} }

\* the database: each run number of the range is absent (<<>>) or present
Databases(times, conds) ==
    [RunNumbers -> {<<>>} \cup {<<e>> : e \in DbEntries(times, conds)}]

----------------------------------------------------------------------------
(* The two queries, lines 46-58 *)

\* db.select_values([...], run_min, run_max): one row per run with conditions
select_values(d) ==
    { [number |-> n,
       event_count |-> Val(Val(d[n]).cond).event_count,
       polarization_angle |-> Val(Val(d[n]).cond).polarization_angle,
       is_valid_run_end |-> Val(Val(d[n]).cond).is_valid_run_end] :
      n \in {m \in RunNumbers : ~IsNa(d[m]) /\ ~IsNa(Val(d[m]).cond)} }

\* pd.read_sql("SELECT * FROM runs WHERE number >= begin AND number <= end")
read_sql(d) ==
    { [number |-> n, started |-> Val(d[n]).run.started, finished |-> Val(d[n]).run.finished] :
      n \in {m \in RunNumbers : ~IsNa(d[m])} }

----------------------------------------------------------------------------
(* Merge and aggregation, lines 61-77 *)

\* mutant of dropna: only the start time is looked at
dropna_started_only(rows) == { r \in rows : ~IsNa(r.started) }

\* df.dropna(subset=['started', 'finished'])
dropna(rows) == { r \in rows : ~IsNa(r.started) /\ ~IsNa(r.finished) }

\* pd.merge(df, df_cond, on='number', how='left'): every row of df, with the
\* columns of each condition row of the same number, or NaN when there is none
merge(rows, cond) ==
    UNION { IF \E c \in cond : c.number = r.number
            THEN { [number |-> r.number, started |-> r.started, finished |-> r.finished,
                    event_count |-> c.event_count,
                    polarization_angle |-> c.polarization_angle,
                    is_valid_run_end |-> c.is_valid_run_end] :
                   c \in {x \in cond : x.number = r.number} }
            ELSE { [number |-> r.number, started |-> r.started, finished |-> r.finished,
                    event_count |-> NaN, polarization_angle |-> NaN,
                    is_valid_run_end |-> NaN] }
          : r \in rows }

\* sort_values('started'): the default sort is not stable, so rows with equal
\* start times may come out in any order
sort_values(rows) ==
    { s \in [1 .. Cardinality(rows) -> rows] :
        /\ \A i, j \in 1 .. Cardinality(rows) : i # j => s[i] # s[j]
        /\ \A i, j \in 1 .. Cardinality(rows) :
              i < j => Val(s[i].started) <= Val(s[j].started) }

\* the running total cumsum() keeps: missing event counts are skipped
RECURSIVE running(_, _)
running(s, i) ==
    IF i = 0 THEN 0
    ELSE running(s, i - 1) + (IF IsNa(s[i].event_count) THEN 0 ELSE Val(s[i].event_count))

\* mutant of cum_events: the row's own count, nothing accumulated
cum_events_own(s, i) == s[i].event_count

\* df_merged['event_count'].cumsum(): NaN where the event count is NaN
cum_events(s, i) ==
    IF IsNa(s[i].event_count) THEN NaN ELSE <<running(s, i)>>

\* mutant of bottom: the own count is not taken off
bottom_is_cum(s, i) == cum_events(s, i)

\* df_merged['cum_events'] - df_merged['event_count']
bottom(s, i) ==
    IF IsNa(cum_events(s, i)) \/ IsNa(s[i].event_count) THEN NaN
    ELSE <<Val(cum_events(s, i)) - Val(s[i].event_count)>>

\* lines 69-70: the two derived columns
with_cum(s) ==
    [i \in 1 .. Len(s) |->
        [number |-> s[i].number, started |-> s[i].started, finished |-> s[i].finished,
         event_count |-> s[i].event_count,
         polarization_angle |-> s[i].polarization_angle,
         is_valid_run_end |-> s[i].is_valid_run_end,
         cum_events |-> cum_events(s, i), bottom |-> bottom(s, i)]]

\* mutant of group_sum: the sum is taken over the rows of every angle
RECURSIVE group_sum_all(_, _, _)
group_sum_all(s, a, i) ==
    IF i = 0 THEN 0
    ELSE group_sum_all(s, a, i - 1)
         + (IF ~IsNa(s[i].event_count) THEN Val(s[i].event_count) ELSE 0)

\* ('event_count', 'sum') of one group: NaN event counts are skipped
RECURSIVE group_sum(_, _, _)
group_sum(s, a, i) ==
    IF i = 0 THEN 0
    ELSE group_sum(s, a, i - 1)
         + (IF s[i].polarization_angle = <<a>> /\ ~IsNa(s[i].event_count)
            THEN Val(s[i].event_count) ELSE 0)

\* ('number', lambda x: list(sorted(x.unique()))) of one group
group_runs(s, a) ==
    { s[i].number : i \in {j \in 1 .. Len(s) : s[j].polarization_angle = <<a>>} }

\* the group keys of groupby('polarization_angle'): rows with a NaN key are dropped
group_keys(s) ==
    { Val(s[i].polarization_angle) : i \in {j \in 1 .. Len(s) : ~IsNa(s[j].polarization_angle)} }

\* a finite set of integers as the ascending sequence of its elements
RECURSIVE sorted(_)
sorted(S) ==
    IF S = {} THEN <<>>
    ELSE LET m == CHOOSE x \in S : \A y \in S : x <= y
         IN <<m>> \o sorted(S \ {m})

\* df_merged.groupby('polarization_angle').agg(...): one row per angle, in
\* ascending order of the angle
groupby_agg(s) ==
    LET keys == sorted(group_keys(s))
    IN [k \in 1 .. Len(keys) |->
          [polarization_angle |-> keys[k],
           total_events |-> group_sum(s, keys[k], Len(s)),
           runs |-> sorted(group_runs(s, keys[k]))]]

----------------------------------------------------------------------------
(* Text report, lines 79-93 *)

\* one hundredth of a billion events, the unit round(x / 1e9, 2) rounds to
HundredthOfBillion == 10000000

\* round(total / 1e9, 2) as a number of hundredths: to the nearest hundredth.
\* An exact half goes to the even neighbour here; Python decides it by the
\* binary value of the quotient.  No sum of EventCounts is an exact half.
round2(n) ==
    LET q == n \div HundredthOfBillion
        r == n % HundredthOfBillion
    IN IF 2 * r < HundredthOfBillion THEN q
       ELSE IF 2 * r > HundredthOfBillion THEN q + 1
       ELSE IF q % 2 = 0 THEN q ELSE q + 1

\* pol_labels.get(pol, str(pol))
pol_label(a) ==
    CASE a = 0 -> "0/90 PARA"
      [] a = 45 -> "45/135 PARA"
      [] a = 90 -> "0/90 PERP"
      [] a = 135 -> "45/135 PERP"
      [] a = -1 -> "AMO"
      [] OTHER -> ToString(a)

\* polarization_map.get(angle, 'gray'), for an angle that may be NaN
pol_color(x) ==
    IF IsNa(x) THEN "gray"
    ELSE CASE Val(x) = 0 -> "#1f77b4"
           [] Val(x) = 45 -> "#2ca02c"
           [] Val(x) = 90 -> "#aec7e8"
           [] Val(x) = 135 -> "#98df8a"
           [] Val(x) = -1 -> "#f08080"
           [] OTHER -> "gray"

min_of(S) == CHOOSE x \in S : \A y \in S : x <= y
max_of(S) == CHOOSE x \in S : \A y \in S : x >= y

started_of(s) == { Val(s[i].started) : i \in 1 .. Len(s) }
finished_of(s) == { Val(s[i].finished) : i \in 1 .. Len(s) }

\* line 79
overall_time_min(s) == min_of(started_of(s))

\* line 80
overall_time_max(s) == max_of(started_of(s))

\* mutant of total_trigger: the event totals are summed and the sum rounded
RECURSIVE total_events_sum(_, _)
total_events_sum(sm, k) ==
    IF k = 0 THEN 0 ELSE total_events_sum(sm, k - 1) + sm[k].total_events

total_trigger_round_of_sum(sm, k) == round2(total_events_sum(sm, k))

\* the value of total_trigger after the first k rounds of the loop of line 85
RECURSIVE total_trigger(_, _)
total_trigger(sm, k) ==
    IF k = 0 THEN 0
    ELSE total_trigger(sm, k - 1) + round2(sm[k].total_events)

\* the lines printed for the groups (lines 86-92)
group_lines(sm) ==
    [k \in 1 .. Len(sm) |->
        [desc |-> pol_label(sm[k].polarization_angle),
         triggers_billion |-> round2(sm[k].total_events),
         runs |-> sm[k].runs]]

\* everything lines 82-93 print
text_report(s, sm) ==
    [time_range |-> <<overall_time_min(s), overall_time_max(s)>>,
     groups |-> group_lines(sm),
     total |-> total_trigger(sm, Len(sm))]

----------------------------------------------------------------------------
(* Figure 1, lines 96-110 *)

\* plt.hlines(y=df['number'], xmin=df['started'], xmax=df['finished'])
hlines(rows) ==
    { [y |-> r.number, xmin |-> Val(r.started), xmax |-> Val(r.finished)] : r \in rows }

----------------------------------------------------------------------------
(* Figure 2, lines 113-166 *)

HoursPerDay == 24

\* 'black' if row['is_valid_run_end'] else 'red': the truth value of the cell;
\* NaN is a float other than zero, which Python takes as true
edgecolor(v) == IF IsNa(v) THEN "black" ELSE IF Val(v) THEN "black" ELSE "red"

\* one ax.bar per row (lines 114-125); the width is kept in hours
bars(s) ==
    [i \in 1 .. Len(s) |->
        [x |-> Val(s[i].started),
         height |-> s[i].event_count,
         width |-> Val(s[i].finished) - Val(s[i].started),
         bottom |-> s[i].bottom,
         color |-> pol_color(s[i].polarization_angle),
         edgecolor |-> edgecolor(s[i].is_valid_run_end)]]

\* floor('D')
floor_day(t) == (t \div HoursPerDay) * HoursPerDay

\* mutant of unique_days: the day of the earliest start only
unique_days_first(s) == { floor_day(min_of(started_of(s))) }

\* line 127
unique_days(s) == { floor_day(Val(s[i].started)) : i \in 1 .. Len(s) }

\* line 131
shift_hours == {0, 8, 16}

\* the hours of the owl, day and swing annotations (lines 137-141)
shift_names == [owl |-> 4, day |-> 12, swing |-> 20]

\* lines 130-136 and 143: one dashed line and one tick per day and shift hour
tick_positions(s) == { d + h : d \in unique_days(s), h \in shift_hours }

\* lines 137-142
annotations(s) ==
    { [text |-> n, x |-> d + shift_names[n]] : d \in unique_days(s), n \in DOMAIN shift_names }

\* lines 146-152
legend_elements(sm) ==
    [k \in 1 .. Len(sm) |->
        [color |-> pol_color(<<sm[k].polarization_angle>>),
         desc |-> pol_label(sm[k].polarization_angle),
         triggers_billion |-> round2(sm[k].total_events)]]

\* line 166
xlim(s) == <<min_of(started_of(s)), max_of(finished_of(s))>>

figure2(s, sm) ==
    [bars |-> bars(s),
     tick_positions |-> tick_positions(s),
     annotations |-> annotations(s),
     legend |-> legend_elements(sm),
     xlim |-> xlim(s)]

----------------------------------------------------------------------------
(* main() as a sequence of steps; each step that talks to the outside
   (database, file system) may raise, which ends the process *)

InitRest ==
    /\ pc = "select_values"
    /\ table = {}
    /\ df = {}
    /\ df_merged = <<>>
    /\ summary = <<>>
    /\ stdout = <<>>
    /\ fig1 = <<>>
    /\ fig2 = <<>>
    /\ effects = <<>>

Init ==
    /\ db \in Databases(TimeOptions, CondValues)
    /\ InitRest

\* the same program over databases that vary the times and the validity flag
InitChart ==
    /\ db \in Databases(ChartTimeOptions, ChartCondValues)
    /\ InitRest

\* an uncaught exception at the current step
Raise ==
    /\ pc' = "raised"
    /\ UNCHANGED <<db, table, df, df_merged, summary, stdout, fig1, fig2, effects>>

\* lines 46-51
SelectValues ==
    /\ pc = "select_values"
    /\ table' = select_values(db)
    /\ effects' = Append(effects, "select_values")
    /\ pc' = "read_sql"
    /\ UNCHANGED <<db, df, df_merged, summary, stdout, fig1, fig2>>

SelectValuesFails ==
    /\ pc = "select_values"
    /\ Raise

\* lines 54-58
ReadSql ==
    /\ pc = "read_sql"
    /\ df' = read_sql(db)
    /\ effects' = Append(effects, "read_sql")
    /\ pc' = "merge"
    /\ UNCHANGED <<db, table, df_merged, summary, stdout, fig1, fig2>>

ReadSqlFails ==
    /\ pc = "read_sql"
    /\ Raise

\* lines 61-77
Merge ==
    /\ pc = "merge"
    /\ df' = dropna(df)
    /\ \E s \in sort_values(merge(df', table)) :
          /\ df_merged' = with_cum(s)
          /\ summary' = groupby_agg(with_cum(s))
    /\ pc' = "report"
    /\ UNCHANGED <<db, table, stdout, fig1, fig2, effects>>

\* lines 79-93
TextReport ==
    /\ pc = "report"
    /\ Len(df_merged) > 0
    /\ stdout' = <<text_report(df_merged, summary)>>
    /\ effects' = Append(effects, "text")
    /\ pc' = "figure1"
    /\ UNCHANGED <<db, table, df, df_merged, summary, fig1, fig2>>

\* line 82 with no rows: min() is NaT and NaT.strftime raises
TextReportFails ==
    /\ pc = "report"
    /\ Len(df_merged) = 0
    /\ Raise

\* mutant of Figure1: the timeline chart is drawn before the text report
Figure1_before_report ==
    /\ pc = "report"
    /\ fig1' = <<hlines(df)>>
    /\ effects' = Append(effects, "run_durations.png")
    /\ pc' = "figure2"
    /\ UNCHANGED <<db, table, df, df_merged, summary, stdout, fig2>>

\* lines 96-110
Figure1 ==
    /\ pc = "figure1"
    /\ fig1' = <<hlines(df)>>
    /\ effects' = Append(effects, "run_durations.png")
    /\ pc' = "figure2"
    /\ UNCHANGED <<db, table, df, df_merged, summary, stdout, fig2>>

Figure1Fails ==
    /\ pc = "figure1"
    /\ Raise

\* lines 113-169
Figure2 ==
    /\ pc = "figure2"
    /\ fig2' = <<figure2(df_merged, summary)>>
    /\ effects' = Append(effects, "production_summary.png")
    /\ pc' = "done"
    /\ UNCHANGED <<db, table, df, df_merged, summary, stdout, fig1>>

Figure2Fails ==
    /\ pc = "figure2"
    /\ Raise

Next ==
    \/ SelectValues
    \/ SelectValuesFails
    \/ ReadSql
    \/ ReadSqlFails
    \/ Merge
    \/ TextReport
    \/ TextReportFails
    \/ Figure1
    \/ Figure1Fails
    \/ Figure2
    \/ Figure2Fails

Spec == Init /\ [][Next]_vars

SpecChart == InitChart /\ [][Next]_vars

----------------------------------------------------------------------------
(* What the database says, read off db without the pipeline's operators *)

Present(n) == ~IsNa(db[n])
HasBothTimes(n) ==
    Present(n) /\ ~IsNa(Val(db[n]).run.started) /\ ~IsNa(Val(db[n]).run.finished)

\* the runs that have both timestamps: the runs of the merged rows
Kept == { n \in RunNumbers : HasBothTimes(n) }

\* the fetched runs with a null start or a null finish
NullTimed == { n \in RunNumbers : Present(n) /\ ~HasBothTimes(n) }

StartOf(n) == Val(Val(db[n]).run.started)
FinishOf(n) == Val(Val(db[n]).run.finished)
HasCond(n) == ~IsNa(Val(db[n]).cond)
CountOf(n) == IF HasCond(n) THEN Val(Val(db[n]).cond).event_count ELSE NaN
AngleOf(n) == IF HasCond(n) THEN Val(Val(db[n]).cond).polarization_angle ELSE NaN
ValidOf(n) == IF HasCond(n) THEN Val(Val(db[n]).cond).is_valid_run_end ELSE NaN

\* the sum of the event counts of a set of runs, a missing count adding nothing
RECURSIVE EventsOf(_)
EventsOf(S) ==
    IF S = {} THEN 0
    ELSE LET n == CHOOSE x \in S : TRUE
         IN (IF IsNa(CountOf(n)) THEN 0 ELSE Val(CountOf(n))) + EventsOf(S \ {n})

\* the angles that occur among the merged rows
AnglesKept == { Val(AngleOf(n)) : n \in {m \in Kept : ~IsNa(AngleOf(m))} }

RunsAt(a) == { n \in Kept : AngleOf(n) = <<a>> }

Printed == stdout # <<>>
Report == stdout[1]
Chart == fig2[1]

\* the sum of the event counts of rows 1 .. k of the merged rows
RECURSIVE EventsBefore(_)
EventsBefore(k) ==
    IF k = 0 THEN 0
    ELSE EventsBefore(k - 1)
         + (IF IsNa(df_merged[k].event_count) THEN 0 ELSE Val(df_merged[k].event_count))

\* the sum of the printed per-angle figures of lines 1 .. k of the report
RECURSIVE PrintedSum(_)
PrintedSum(k) ==
    IF k = 0 THEN 0 ELSE PrintedSum(k - 1) + Report.groups[k].triggers_billion

\* x >= y for cells that may be NaN: no comparison with NaN is true
Ge(x, y) == ~IsNa(x) /\ ~IsNa(y) /\ Val(x) >= Val(y)

----------------------------------------------------------------------------
(* Claims *)

\* C1: for every polarization angle that occurs among the merged rows (the
\* runs with both timestamps), the report has exactly one line for that angle
\* and its figure is the sum of event_count over exactly the merged rows of
\* that angle, in billions rounded to 2 decimals, with exactly those runs
\* listed; there is no line for anything else.
C1_PerAngleTotals ==
    Printed =>
        /\ Len(Report.groups) = Cardinality(AnglesKept)
        /\ \A a \in AnglesKept :
              \E k \in 1 .. Len(Report.groups) :
                 /\ Report.groups[k].desc = pol_label(a)
                 /\ Report.groups[k].triggers_billion = round2(EventsOf(RunsAt(a)))
                 /\ Report.groups[k].runs = sorted(RunsAt(a))

\* C1 witness: a report with two angles whose printed totals differ
C1_Witness ==
    /\ Printed
    /\ Len(Report.groups) = 2
    /\ Report.groups[1].triggers_billion # Report.groups[2].triggers_billion

\* C2 as stated: the grand total is the sum of the event counts of all
\* polarization groups, in billions, rounded to 2 decimals.
C2_TotalIsRoundedSum ==
    Printed =>
        Report.total = round2(EventsOf({n \in Kept : ~IsNa(AngleOf(n))}))

\* C2 amended: the grand total is the sum of the per-angle figures as
\* printed, each of them already rounded to 2 decimals; the sum itself is
\* not the rounded sum of the event counts.
C2_TotalIsSumOfRounded ==
    Printed =>
        /\ Report.total = PrintedSum(Len(Report.groups))
        /\ \A k \in 1 .. Len(Report.groups) :
              Report.groups[k].triggers_billion = round2(summary[k].total_events)

\* C2 witness: two groups are printed and the total differs from the rounded
\* sum of their event counts
C2_Witness ==
    /\ Printed
    /\ Len(Report.groups) = 2
    /\ Report.total # round2(summary[1].total_events + summary[2].total_events)

\* lines 61-77 have run: both queries returned and main() is past the merge
AfterMerge == Len(effects) >= 2 /\ pc # "merge"

\* the columns of a merged row that come from the join
Joined(r) ==
    [number |-> r.number, started |-> r.started, finished |-> r.finished,
     event_count |-> r.event_count, polarization_angle |-> r.polarization_angle,
     is_valid_run_end |-> r.is_valid_run_end]

\* the run rows and the joined rows of the database with the null-timed runs
\* taken out of it
RunRowsKept ==
    { [number |-> n, started |-> <<StartOf(n)>>, finished |-> <<FinishOf(n)>>] : n \in Kept }

JoinedRowsKept ==
    { [number |-> n, started |-> <<StartOf(n)>>, finished |-> <<FinishOf(n)>>,
       event_count |-> CountOf(n), polarization_angle |-> AngleOf(n),
       is_valid_run_end |-> ValidOf(n)] : n \in Kept }

\* C3: a run whose start or finish is null is in no downstream result (merged
\* rows, cumulative counts, groups, printed run lists and time range, lines of
\* the timeline chart, bars of the accumulation chart), and every result is
\* what it is for the database without that run.
C3_NullTimesExcluded ==
    AfterMerge =>
        /\ df = RunRowsKept
        /\ { Joined(df_merged[i]) : i \in 1 .. Len(df_merged) } = JoinedRowsKept
        /\ Len(df_merged) = Cardinality(Kept)
        /\ \A i \in 1 .. Len(df_merged) :
              IF IsNa(CountOf(df_merged[i].number))
              THEN IsNa(df_merged[i].cum_events) /\ IsNa(df_merged[i].bottom)
              ELSE /\ df_merged[i].cum_events = <<EventsBefore(i)>>
                   /\ df_merged[i].bottom = <<EventsBefore(i - 1)>>
        /\ summary = groupby_agg(df_merged)
        /\ \A i \in 1 .. Len(df_merged) : df_merged[i].number \in Kept
        /\ \A k \in 1 .. Len(summary) :
              \A j \in 1 .. Len(summary[k].runs) : summary[k].runs[j] \in Kept
        /\ Printed =>
              /\ Report.groups = group_lines(summary)
              /\ \A k \in 1 .. Len(Report.groups) :
                    Report.groups[k].triggers_billion = round2(EventsOf(RunsAt(summary[k].polarization_angle)))
              /\ Report.time_range[1] \in {StartOf(n) : n \in Kept}
              /\ Report.time_range[2] \in {StartOf(n) : n \in Kept}
        /\ fig1 # <<>> => {h.y : h \in fig1[1]} = Kept
        /\ fig2 # <<>> =>
              /\ Len(Chart.bars) = Cardinality(Kept)
              /\ \A i \in 1 .. Len(Chart.bars) :
                    /\ Chart.bars[i].x = StartOf(df_merged[i].number)
                    /\ Chart.bars[i].height = CountOf(df_merged[i].number)

\* C3 witness: the pipeline has finished on a database with a null-timed run
\* that has an event count and an angle, next to a run with both timestamps
C3_Witness ==
    /\ pc = "done"
    /\ Kept # {}
    /\ \E n \in NullTimed : ~IsNa(CountOf(n)) /\ ~IsNa(AngleOf(n))

\* C4 as stated: the 'Time range' line shows the earliest start and the
\* latest finish over all merged rows.
C4_TimeRange ==
    Printed =>
        /\ Report.time_range[1] = min_of({StartOf(n) : n \in Kept})
        /\ Report.time_range[2] = max_of({FinishOf(n) : n \in Kept})

\* C5 as stated: in start-time order, every row's cum_events is greater than
\* or equal to the cum_events of the row before it, whatever the left join
\* produced.
C5_CumNonDecreasing ==
    \A i \in 1 .. Len(df_merged) - 1 :
        Ge(df_merged[i + 1].cum_events, df_merged[i].cum_events)

\* C5 amended: the rows are in start-time order and, over the rows that have
\* an event count, cum_events is non-decreasing; a row without an event
\* count has a NaN cum_events, which is greater than or equal to nothing.
C5_CumNonDecreasingWhereCounted ==
    /\ \A i, j \in 1 .. Len(df_merged) :
          i < j => Val(df_merged[i].started) <= Val(df_merged[j].started)
    /\ \A i, j \in 1 .. Len(df_merged) :
          (i < j /\ ~IsNa(df_merged[i].event_count) /\ ~IsNa(df_merged[j].event_count))
             => Ge(df_merged[j].cum_events, df_merged[i].cum_events)
    /\ \A i \in 1 .. Len(df_merged) :
          IsNa(df_merged[i].cum_events) <=> IsNa(CountOf(df_merged[i].number))

\* C5 witness: two merged rows with event counts, the later one starting later
C5_Witness ==
    /\ Len(df_merged) = 2
    /\ Val(df_merged[1].started) < Val(df_merged[2].started)
    /\ ~IsNa(df_merged[1].cum_events)
    /\ ~IsNa(df_merged[2].cum_events)
    /\ Val(df_merged[1].event_count) > Val(df_merged[2].event_count)

\* C6 as stated: every merged row's bottom is the sum of the event counts of
\* the rows before it in start-time order, so the earliest row's bottom is 0.
C6_BottomIsSumBefore ==
    \A i \in 1 .. Len(df_merged) : df_merged[i].bottom = <<EventsBefore(i - 1)>>

\* C6 amended: every merged row that has an event count has as bottom the
\* sum of the event counts of the rows before it in start-time order (rows
\* without a count adding nothing), which is its cum_events minus its own
\* count; a row without an event count has a NaN bottom.
C6_BottomWhereCounted ==
    \A i \in 1 .. Len(df_merged) :
        IF IsNa(CountOf(df_merged[i].number))
        THEN IsNa(df_merged[i].bottom)
        ELSE /\ df_merged[i].bottom = <<EventsBefore(i - 1)>>
             /\ df_merged[i].cum_events = <<EventsBefore(i)>>

\* C6 witness: the second of two counted rows stands on the first one's count
C6_Witness ==
    /\ Len(df_merged) = 2
    /\ ~IsNa(df_merged[1].event_count)
    /\ ~IsNa(df_merged[2].event_count)
    /\ df_merged[2].bottom = df_merged[1].event_count
    /\ df_merged[1].bottom = <<0>>

\* the one order of the effects
EffectOrder ==
    <<"select_values", "read_sql", "text", "run_durations.png", "production_summary.png">>

\* C7: the effects happen in the one fixed order, so what exists at any time,
\* also after a failure, is the output of the steps completed so far: text
\* only after both queries, the run_durations image only after the text, the
\* production_summary image only after the run_durations image.
C7_EffectsInOrder ==
    /\ Len(effects) <= Len(EffectOrder)
    /\ \A i \in 1 .. Len(effects) : effects[i] = EffectOrder[i]
    /\ Printed <=> Len(effects) >= 3
    /\ fig1 # <<>> <=> Len(effects) >= 4
    /\ fig2 # <<>> <=> Len(effects) = 5
    /\ pc = "raised" => Len(effects) < 5
    /\ pc = "done" <=> Len(effects) = 5

\* C7 witness: a failure after the text report and before the first image
C7_Witness ==
    /\ pc = "raised"
    /\ Printed
    /\ fig1 = <<>>
    /\ fig2 = <<>>

\* C8 as stated: a bar's border is black exactly when the run's
\* is_valid_run_end is true, and red otherwise (flag false, or no flag
\* because the run has no condition row).
C8_EdgeColour ==
    fig2 # <<>> =>
        \A i \in 1 .. Len(Chart.bars) :
            Chart.bars[i].edgecolor =
                (IF ValidOf(df_merged[i].number) = <<TRUE>> THEN "black" ELSE "red")

\* the days (as their hour 0) from the day of the earliest start through the
\* day of the latest finish
DaysSpanned ==
    { d * HoursPerDay :
        d \in (min_of({StartOf(n) : n \in Kept}) \div HoursPerDay)
              .. (max_of({FinishOf(n) : n \in Kept}) \div HoursPerDay) }

\* the days (as their hour 0) on which a merged run starts
DaysStarted == { (StartOf(n) \div HoursPerDay) * HoursPerDay : n \in Kept }

ShiftMarks(days) ==
    /\ \A d \in days :
          /\ {d, d + 8, d + 16} \subseteq Chart.tick_positions
          /\ { [text |-> "owl", x |-> d + 4], [text |-> "day", x |-> d + 12],
               [text |-> "swing", x |-> d + 20] } \subseteq Chart.annotations

\* C9 as stated: every day from the day of the earliest start through the day
\* of the latest finish has its lines and ticks at hours 0, 8, 16 and its
\* owl, day, swing annotations at hours 4, 12, 20.
C9_ShiftsOnSpannedDays ==
    fig2 # <<>> => ShiftMarks(DaysSpanned)

\* C9 amended: every day on which at least one merged run starts has its
\* lines and ticks at hours 0, 8, 16 and its owl, day, swing annotations at
\* hours 4, 12, 20, and no other day has any (a day a run only runs into, or
\* a day between runs, has none).
C9_ShiftsOnStartDays ==
    fig2 # <<>> =>
        /\ ShiftMarks(DaysStarted)
        /\ Cardinality(Chart.tick_positions) = 3 * Cardinality(DaysStarted)
        /\ Cardinality(Chart.annotations) = 3 * Cardinality(DaysStarted)

\* C9 witness: runs start on two different days and a spanned day has no start
C9_Witness ==
    /\ fig2 # <<>>
    /\ Cardinality(DaysStarted) = 2
    /\ DaysSpanned # DaysStarted

\* the sum of the per-angle event totals of the summary
RECURSIVE SummaryTotal(_)
SummaryTotal(k) ==
    IF k = 0 THEN 0 ELSE SummaryTotal(k - 1) + summary[k].total_events

\* C10 as stated: the sum of the per-angle totals is the final cumulative
\* event count, the top of the last stacked bar (the largest cum_events).
C10_TotalsAccountForAll ==
    (\E i \in 1 .. Len(df_merged) : ~IsNa(df_merged[i].cum_events)) =>
        SummaryTotal(Len(summary))
            = max_of({ Val(df_merged[i].cum_events) :
                         i \in {j \in 1 .. Len(df_merged) : ~IsNa(df_merged[j].cum_events)} })

====
